---- MODULE Spec2Model ----
(***************************************************************************)
(* rkyv_versioned: a versioned binary envelope around rkyv archives.       *)
(*                                                                         *)
(* The module models                                                       *)
(*   - the derive macro of rkyv_versioned_derive (generate), which turns   *)
(*     an enum declaration into compile errors plus an implementation of   *)
(*     VersionedContainer;                                                 *)
(*   - the generated methods to_tagged_bytes,                              *)
(*     get_type_and_version_from_tagged_bytes, get_ref_from_tagged_bytes,  *)
(*     get_entry_version_id and is_valid_version_id;                       *)
(*   - the byte level behaviour of the two engine calls the methods make,  *)
(*     rkyv::to_bytes and rkyv::access, on the archived layouts of         *)
(*     TaggedVersionedContainer and TaggedVersionedContainerHeaderOnly.    *)
(*                                                                         *)
(* Buffers are sequences of bytes (0..255).  A u32 or u64 value is the     *)
(* tuple of its 16 bit limbs, most significant first, so that every bit    *)
(* pattern a buffer can hold is a value of the model.  Buffers are handed  *)
(* to the reader at the 16 byte alignment of the AlignedVec the writer     *)
(* returns.                                                                *)
(***************************************************************************)
EXTENDS Integers, Sequences, FiniteSets, TLC

VARIABLES decl, gen, item, written, buf, nCorrupt, lastCall, result

vars == <<decl, gen, item, written, buf, nCorrupt, lastCall, result>>

None == [kind |-> "None"]

(***************************************************************************)
(* Bounds of the model.                                                    *)
(***************************************************************************)
\* how many times the bytes of one written buffer are overwritten or cut
MaxCorruptions == 2

(***************************************************************************)
(* Integers and bytes.                                                     *)
(***************************************************************************)
Limb == 256 * 256

\* the u32 with value n (n < 2^31)
U32(n) == <<n \div Limb, n % Limb>>

\* the u64 with value n (n < 2^31)
U64(n) == <<0, 0, n \div Limb, n % Limb>>

\* little-endian bytes of a limb tuple (rend's u32_le / u64_le)
RECURSIVE ToLe(_)
ToLe(v) ==
    IF v = <<>> THEN <<>>
    ELSE <<v[Len(v)] % 256, v[Len(v)] \div 256>> \o ToLe(SubSeq(v, 1, Len(v) - 1))

\* the limb tuple held by little-endian bytes (an even number of them)
RECURSIVE FromLe(_)
FromLe(b) ==
    IF b = <<>> THEN <<>>
    ELSE FromLe(SubSeq(b, 3, Len(b))) \o <<b[2] * 256 + b[1]>>

\* i32 read from four little-endian bytes
I32FromLe(b) ==
    IF b[4] < 128
    THEN ((b[4] * 256 + b[3]) * 256 + b[2]) * 256 + b[1]
    ELSE -((((255 - b[4]) * 256 + (255 - b[3])) * 256 + (255 - b[2])) * 256
           + (255 - b[1])) - 1

\* four little-endian bytes of an i32
I32ToLe(n) ==
    LET m == IF n >= 0 THEN n ELSE -n - 1
        raw == <<m % 256, (m \div 256) % 256, (m \div 65536) % 256,
                 (m \div 16777216) % 256>>
    IN  IF n >= 0 THEN raw ELSE [i \in 1..4 |-> 255 - raw[i]]

Zeros(n) == [i \in 1..n |-> 0]

Fill(n, b) == [i \in 1..n |-> b]

AlignUp(pos, align) == ((pos + align - 1) \div align) * align

Max(a, b) == IF a >= b THEN a ELSE b

\* bytes [from, from + n) of a buffer, offsets counted from 0
Slice(b, from, n) == SubSeq(b, from + 1, from + n)

\* the buffer with the bytes at offset from replaced
Patch(b, from, bs) ==
    [i \in 1..Len(b) |->
        IF i > from /\ i <= from + Len(bs) THEN bs[i - from] ELSE b[i]]

(***************************************************************************)
(* The derive macro.                                                       *)
(***************************************************************************)
\* the payload structs of the crate's test module
TestStructV1 ==
    [name |-> "TestStructV1",
     fields |-> <<[name |-> "a", ty |-> "u32"], [name |-> "b", ty |-> "u32"],
                  [name |-> "c", ty |-> "String"]>>]

TestStructV2 ==
    [name |-> "TestStructV2",
     fields |-> <<[name |-> "a", ty |-> "u64"], [name |-> "b", ty |-> "u64"],
                  [name |-> "c", ty |-> "u64"], [name |-> "d", ty |-> "String"]>>]

\* a variant of a declaration: its ident, the kind of its fields
\* (syn::Fields::Unnamed, Named or Unit) and the types of the fields
Variant(ident, shape, tys) == [ident |-> ident, fields |-> shape, tys |-> tys]

\* enum TestContainer { V1(&TestStructV1), V2(&TestStructV2) }
TestContainer ==
    [data |-> "Enum", ident |-> "TestContainer",
     variants |-> <<Variant("V1", "Unnamed", <<TestStructV1>>),
                    Variant("V2", "Unnamed", <<TestStructV2>>)>>]

\* the inputs the macro is applied to
Declarations ==
    { TestContainer,
      [data |-> "Enum", ident |-> "TestContainer",
       variants |-> <<Variant("V1", "Unnamed", <<TestStructV1>>)>>],
      [data |-> "Enum", ident |-> "TestContainer",
       variants |-> <<Variant("V1", "Unnamed", <<TestStructV2>>),
                      Variant("V2", "Unnamed", <<TestStructV1>>),
                      Variant("V3", "Unnamed", <<TestStructV1>>)>>],
      [data |-> "Enum", ident |-> "TestContainer",
       variants |-> <<Variant("V1", "Unnamed", <<TestStructV1>>),
                      Variant("V2", "Unnamed", <<TestStructV1, TestStructV2>>)>>],
      [data |-> "Enum", ident |-> "TestContainer",
       variants |-> <<Variant("V1", "Unnamed", <<>>),
                      Variant("V2", "Unnamed", <<TestStructV2>>)>>],
      [data |-> "Enum", ident |-> "TestContainer",
       variants |-> <<Variant("V1", "Unnamed", <<TestStructV1>>),
                      Variant("V2", "Unit", <<>>)>>],
      [data |-> "Enum", ident |-> "TestContainer",
       variants |-> <<Variant("V1", "Named", <<TestStructV1>>),
                      Variant("V2", "Named", <<TestStructV1, TestStructV2>>)>>],
      [data |-> "Struct", ident |-> "TestContainer", variants |-> <<>>] }

\* const_crc32::crc32("TestContainer".as_bytes())
CRC32_TestContainer == 1301179259

crc32(string_name) == U32(CRC32_TestContainer)

\* format!("{}::{}", enum_name, variant.ident)
DebugName(enum_name, variant) == <<enum_name, variant.ident>>

\* the state of the loop over the variants before it runs
GenerateStart == [error_messages |-> <<>>, valid_versions |-> <<>>,
                  match_branches |-> <<>>]

\* the loop body numbering the variants from one
GenerateStepOneBased(acc, enum_name, variant_index, variant) ==
    IF variant.fields = "Unnamed"
    THEN IF Len(variant.tys) # 1
         THEN [acc EXCEPT !.error_messages = Append(@,
                  [error |-> "Only one unnamed field per enum variant is supported",
                   in |-> DebugName(enum_name, variant)])]
         ELSE [acc EXCEPT
                  !.valid_versions = Append(@, U32(variant_index + 1)),
                  !.match_branches = Append(@,
                      [branch_name |-> variant.ident,
                       version |-> U32(variant_index + 1)])]
    ELSE [acc EXCEPT !.error_messages = Append(@,
             [error |-> "Only unnamed fields supported in enum variants",
              in |-> DebugName(enum_name, variant)])]

\* one iteration of the loop over data_enum.variants.iter().enumerate()
GenerateStep(acc, enum_name, variant_index, variant) ==
    IF variant.fields = "Unnamed"
    THEN IF Len(variant.tys) # 1
         THEN [acc EXCEPT !.error_messages = Append(@,
                  [error |-> "Only one unnamed field per enum variant is supported",
                   in |-> DebugName(enum_name, variant)])]
         ELSE [acc EXCEPT
                  !.valid_versions = Append(@, U32(variant_index)),
                  !.match_branches = Append(@,
                      [branch_name |-> variant.ident,
                       version |-> U32(variant_index)])]
    ELSE [acc EXCEPT !.error_messages = Append(@,
             [error |-> "Only unnamed fields supported in enum variants",
              in |-> DebugName(enum_name, variant)])]

\* the loop over the first n variants
RECURSIVE GenerateLoop(_, _, _)
GenerateLoop(enum_name, variants, n) ==
    IF n = 0 THEN GenerateStart
    ELSE GenerateStep(GenerateLoop(enum_name, variants, n - 1),
                      enum_name, n - 1, variants[n])

\* the impl block the macro emits
ImplBlock(enum_name, variants, loop) ==
    [kind |-> "impl VersionedContainer",
     for |-> enum_name,
     variants |-> variants,
     ARCHIVE_TYPE_ID |-> crc32(enum_name),
     match_branches |-> loop.match_branches,
     valid_versions |-> loop.valid_versions]

\* fn generate: the token stream is the error messages followed by the impl
generate(enum_name, variants) ==
    LET loop == GenerateLoop(enum_name, variants, Len(variants))
    IN  [error_messages |-> loop.error_messages,
         impl |-> ImplBlock(enum_name, variants, loop)]

\* fn derive_versioned_archive_container
derive_versioned_archive_container(input) ==
    IF input.data = "Enum"
    THEN generate(input.ident, input.variants)
    ELSE [error_messages |->
             <<[error |-> "#[derive(VersionedArchiveContainer)] is only defined for enums",
                in |-> <<>>]>>,
          impl |-> None]

\* the crate builds: no compile_error! was emitted
Compiles(g) == g # None /\ g.error_messages = <<>>

\* fn get_entry_version_id: the match over the generated branches
get_entry_version_id(impl, self) ==
    LET hit == {i \in 1..Len(impl.match_branches) :
                   impl.match_branches[i].branch_name = self.variant}
    IN  impl.match_branches[CHOOSE i \in hit : TRUE].version

\* a validity check that also accepts the version after the last one
is_valid_version_id_inclusive(impl, version) ==
    \/ \E i \in 1..Len(impl.valid_versions) : impl.valid_versions[i] = version
    \/ version = U32(Len(impl.valid_versions))

\* fn is_valid_version_id: the match over the generated version patterns
is_valid_version_id(impl, version) ==
    \E i \in 1..Len(impl.valid_versions) : impl.valid_versions[i] = version

(***************************************************************************)
(* Archived layouts (rkyv, little-endian, aligned, 32 bit pointers).       *)
(***************************************************************************)
\* size and alignment of the archived form of a field type; an archived
\* String is the eight byte union of an inline and an out-of-line form
ArchivedSize(ty) == CASE ty = "u32" -> 4 [] ty = "u64" -> 8 [] ty = "String" -> 8

ArchivedAlign(ty) == CASE ty = "u32" -> 4 [] ty = "u64" -> 8 [] ty = "String" -> 4

\* the longest string an archived String holds inline
INLINE_CAPACITY == ArchivedSize("String")

\* offset of the n-th field of a repr(C) struct with the given field types
RECURSIVE FieldOffset(_, _)
FieldOffset(tys, n) ==
    IF n = 1 THEN 0
    ELSE AlignUp(FieldOffset(tys, n - 1) + ArchivedSize(tys[n - 1]),
                 ArchivedAlign(tys[n]))

RECURSIVE MaxAlign(_)
MaxAlign(tys) ==
    IF tys = <<>> THEN 1
    ELSE Max(ArchivedAlign(tys[Len(tys)]), MaxAlign(SubSeq(tys, 1, Len(tys) - 1)))

FieldTypes(struct) == [i \in 1..Len(struct.fields) |-> struct.fields[i].ty]

StructAlign(struct) == MaxAlign(FieldTypes(struct))

StructSize(struct) ==
    LET tys == FieldTypes(struct)
    IN  AlignUp(FieldOffset(tys, Len(tys)) + ArchivedSize(tys[Len(tys)]),
                StructAlign(struct))

\* struct TaggedVersionedContainerHeaderOnly(u32, u32)
TaggedVersionedContainerHeaderOnly ==
    [name |-> "TaggedVersionedContainerHeaderOnly",
     fields |-> <<[name |-> "0", ty |-> "u32"], [name |-> "1", ty |-> "u32"]>>]

\* core::mem::size_of::<ArchivedTaggedVersionedContainerHeaderOnly>()
HEADER_SIZE == StructSize(TaggedVersionedContainerHeaderOnly)

\* the archived enum is repr(u8): a one byte tag, then the variant's payload
\* at the payload's alignment
PayloadOffset(variant) == AlignUp(1, StructAlign(variant.tys[1]))

RECURSIVE EnumAlign(_)
EnumAlign(variants) ==
    IF variants = <<>> THEN 1
    ELSE Max(StructAlign(variants[Len(variants)].tys[1]),
             EnumAlign(SubSeq(variants, 1, Len(variants) - 1)))

RECURSIVE EnumExtent(_)
EnumExtent(variants) ==
    IF variants = <<>> THEN 1
    ELSE Max(PayloadOffset(variants[Len(variants)])
                 + StructSize(variants[Len(variants)].tys[1]),
             EnumExtent(SubSeq(variants, 1, Len(variants) - 1)))

EnumSize(variants) == AlignUp(EnumExtent(variants), EnumAlign(variants))

\* struct TaggedVersionedContainer<'a, T>(u32, u32, #[rkyv(with = Inline)] &'a T):
\* the archived enum lies inline after the two header fields
TypeIdOffset == FieldOffset(FieldTypes(TaggedVersionedContainerHeaderOnly), 1)

VersionOffset == FieldOffset(FieldTypes(TaggedVersionedContainerHeaderOnly), 2)

EnumOffset(variants) == AlignUp(HEADER_SIZE, EnumAlign(variants))

ContainerAlign(variants) ==
    Max(StructAlign(TaggedVersionedContainerHeaderOnly), EnumAlign(variants))

ContainerSize(variants) ==
    AlignUp(EnumOffset(variants) + EnumSize(variants), ContainerAlign(variants))

\* the zero-based position of a variant in the enum: its archived tag
Discriminant(variants, ident) ==
    (CHOOSE i \in 1..Len(variants) : variants[i].ident = ident) - 1

(***************************************************************************)
(* rkyv::to_bytes on a TaggedVersionedContainer.                           *)
(***************************************************************************)
\* the stored length of an out-of-line string: 0b10 in the top bits of the
\* first byte marks the out-of-line form
OutOfLineLen(l) == U32((l % 64) + 128 + (l \div 64) * 256)

\* serialize: the strings that do not fit inline are written first, in field
\* order; pos[i] is where field i's bytes went
RECURSIVE SerializeFields(_, _, _)
SerializeFields(tys, vals, n) ==
    IF n = 0 THEN [out |-> <<>>, pos |-> <<>>]
    ELSE LET before == SerializeFields(tys, vals, n - 1)
         IN  IF tys[n] = "String" /\ Len(vals[n]) > INLINE_CAPACITY
             THEN [out |-> before.out \o vals[n],
                   pos |-> Append(before.pos, Len(before.out))]
             ELSE [out |-> before.out, pos |-> Append(before.pos, 0)]

\* resolve one field at position at of the buffer
ResolveField(ty, val, target, at) ==
    IF ty = "String"
    THEN IF Len(val) <= INLINE_CAPACITY
         THEN val \o Fill(INLINE_CAPACITY - Len(val), 255)
         ELSE ToLe(OutOfLineLen(Len(val))) \o I32ToLe(target - at)
    ELSE ToLe(val)

\* resolve the fields of the payload struct placed at position at
RECURSIVE ResolveStruct(_, _, _, _, _)
ResolveStruct(tys, vals, pos, at, n) ==
    IF n = 0 THEN Zeros(FieldOffset(tys, Len(tys)) + ArchivedSize(tys[Len(tys)]))
    ELSE Patch(ResolveStruct(tys, vals, pos, at, n - 1), FieldOffset(tys, n),
               ResolveField(tys[n], vals[n], pos[n], at + FieldOffset(tys, n)))

\* rkyv::to_bytes(&TaggedVersionedContainer(type_id, version, item)): the
\* out-of-line data, padding, and the root object at the end of the buffer
to_bytes(variants, type_id, version, self) ==
    LET v       == variants[Discriminant(variants, self.variant) + 1]
        tys     == FieldTypes(v.tys[1])
        ser     == SerializeFields(tys, self.payload.vals, Len(tys))
        rootPos == AlignUp(Len(ser.out), ContainerAlign(variants))
        payAt   == rootPos + EnumOffset(variants) + PayloadOffset(v)
        root0   == Zeros(ContainerSize(variants))
        root1   == Patch(root0, TypeIdOffset, ToLe(type_id))
        root2   == Patch(root1, VersionOffset, ToLe(version))
        root3   == Patch(root2, EnumOffset(variants),
                         <<Discriminant(variants, self.variant)>>)
        root4   == Patch(root3, EnumOffset(variants) + PayloadOffset(v),
                         ResolveStruct(tys, self.payload.vals, ser.pos, payAt, Len(tys)))
    IN  ser.out \o Zeros(rootPos - Len(ser.out)) \o root4

\* fn to_tagged_bytes
to_tagged_bytes(impl, self) ==
    to_bytes(impl.variants, impl.ARCHIVE_TYPE_ID,
             get_entry_version_id(impl, self), self)

(***************************************************************************)
(* rkyv::access: validation of a buffer and the archived view of it.       *)
(***************************************************************************)
IsCont(b) == b >= 128 /\ b <= 191

\* core::str::from_utf8 accepts the bytes s[i..]
RECURSIVE IsUtf8From(_, _)
IsUtf8From(s, i) ==
    IF i > Len(s) THEN TRUE
    ELSE LET b == s[i]
             has(k) == i + k <= Len(s)
         IN  CASE b < 128 -> IsUtf8From(s, i + 1)
               [] b >= 194 /\ b <= 223 ->
                    has(1) /\ IsCont(s[i + 1]) /\ IsUtf8From(s, i + 2)
               [] b >= 224 /\ b <= 239 ->
                    /\ has(2)
                    /\ IsCont(s[i + 1]) /\ IsCont(s[i + 2])
                    /\ (b = 224 => s[i + 1] >= 160)
                    /\ (b = 237 => s[i + 1] <= 159)
                    /\ IsUtf8From(s, i + 3)
               [] b >= 240 /\ b <= 244 ->
                    /\ has(3)
                    /\ IsCont(s[i + 1]) /\ IsCont(s[i + 2]) /\ IsCont(s[i + 3])
                    /\ (b = 240 => s[i + 1] >= 144)
                    /\ (b = 244 => s[i + 1] <= 143)
                    /\ IsUtf8From(s, i + 4)
               [] OTHER -> FALSE

IsUtf8(s) == IsUtf8From(s, 1)

\* ArchivedStringRepr::is_inline
IsInline(rep) == (rep[1] \div 64) # 2

\* inline length: up to the first 0xff byte
InlineLen(rep) ==
    IF \E i \in 1..INLINE_CAPACITY : rep[i] = 255
    THEN (CHOOSE i \in 1..INLINE_CAPACITY :
              rep[i] = 255 /\ \A j \in 1..(i - 1) : rep[j] # 255) - 1
    ELSE INLINE_CAPACITY

\* out-of-line length: the marker bits of the first byte taken out
OutOfLineLenOf(rep) == (rep[1] % 64) + ((rep[4] * 256 + rep[3]) * 256 + rep[2]) * 64

OutOfLineOffset(rep) == I32FromLe(SubSeq(rep, 5, 8))

\* bytecheck of the archived String at position at; its out-of-line bytes must
\* lie inside the buffer, before the root object
CheckString(bytes, at, rootPos) ==
    LET rep == Slice(bytes, at, ArchivedSize("String"))
    IN  IF IsInline(rep)
        THEN IsUtf8(SubSeq(rep, 1, InlineLen(rep)))
        ELSE /\ OutOfLineOffset(rep) >= -at
             /\ OutOfLineOffset(rep) <= rootPos - at - OutOfLineLenOf(rep)
             /\ IsUtf8(Slice(bytes, at + OutOfLineOffset(rep), OutOfLineLenOf(rep)))

\* ArchivedString::as_str of a checked archived String
StringAt(bytes, at) ==
    LET rep == Slice(bytes, at, ArchivedSize("String"))
    IN  IF IsInline(rep)
        THEN SubSeq(rep, 1, InlineLen(rep))
        ELSE Slice(bytes, at + OutOfLineOffset(rep), OutOfLineLenOf(rep))

\* bytecheck of a payload struct at position at: every bit pattern is a valid
\* integer, a String is checked
CheckStruct(bytes, struct, at, rootPos) ==
    LET tys == FieldTypes(struct)
    IN  \A n \in 1..Len(tys) :
            tys[n] = "String" => CheckString(bytes, at + FieldOffset(tys, n), rootPos)

\* the fields of a checked archived payload struct, read through the reference
StructAt(bytes, struct, at) ==
    LET tys == FieldTypes(struct)
    IN  [ty |-> struct.name,
         vals |-> [n \in 1..Len(tys) |->
                      IF tys[n] = "String"
                      THEN StringAt(bytes, at + FieldOffset(tys, n))
                      ELSE FromLe(Slice(bytes, at + FieldOffset(tys, n),
                                        ArchivedSize(tys[n])))]]

\* rkyv::api::root_position: the root object is the last thing in the buffer
root_position(len, size) == IF len >= size THEN len - size ELSE 0

\* rkyv::access::<ArchivedTaggedVersionedContainerHeaderOnly, _>(bytes)
access_header(bytes) ==
    LET pos == root_position(Len(bytes), HEADER_SIZE)
    IN  IF pos + HEADER_SIZE <= Len(bytes)
           /\ pos % StructAlign(TaggedVersionedContainerHeaderOnly) = 0
        THEN [kind |-> "Ok",
              value |-> <<FromLe(Slice(bytes, pos + TypeIdOffset, 4)),
                          FromLe(Slice(bytes, pos + VersionOffset, 4))>>]
        ELSE [kind |-> "Err", error |-> [type |-> "rkyv validation", args |-> <<>>]]

\* the archived enum at position at: the variant its tag byte names
EnumAt(bytes, variants, at) ==
    LET v == variants[bytes[at + 1] + 1]
    IN  [variant |-> v.ident,
         payload |-> StructAt(bytes, v.tys[1], at + PayloadOffset(v))]

\* rkyv::access::<ArchivedTaggedVersionedContainer<Self>, _>(bytes): the root
\* must fit and be aligned, the tag must name a variant, the payload of that
\* variant must check
access_container(variants, bytes) ==
    LET pos    == root_position(Len(bytes), ContainerSize(variants))
        enumAt == pos + EnumOffset(variants)
    IN  IF /\ pos + ContainerSize(variants) <= Len(bytes)
           /\ pos % ContainerAlign(variants) = 0
           /\ bytes[enumAt + 1] < Len(variants)
           /\ CheckStruct(bytes, variants[bytes[enumAt + 1] + 1].tys[1],
                          enumAt + PayloadOffset(variants[bytes[enumAt + 1] + 1]), pos)
        THEN [kind |-> "Ok",
              value |-> <<FromLe(Slice(bytes, pos + TypeIdOffset, 4)),
                          FromLe(Slice(bytes, pos + VersionOffset, 4)),
                          EnumAt(bytes, variants, enumAt)>>]
        ELSE [kind |-> "Err", error |-> [type |-> "rkyv validation", args |-> <<>>]]

(***************************************************************************)
(* The generated readers.                                                  *)
(***************************************************************************)
\* a slice index out of range: the thread panics, nothing is returned
Panic == [kind |-> "Panic"]

\* the error with its two fields exchanged
UnexpectedTypeErrorSwapped(expected, got) ==
    [type |-> "UnexpectedTypeError", args |-> <<got, expected>>]

\* struct UnexpectedTypeError(u32, u32): expected, then found
UnexpectedTypeError(expected, got) ==
    [type |-> "UnexpectedTypeError", args |-> <<expected, got>>]

\* struct UnsupportedVersionError(u32)
UnsupportedVersionError(version) ==
    [type |-> "UnsupportedVersionError", args |-> <<version>>]

\* the header read by handing the whole buffer to rkyv::access
get_type_and_version_from_whole_buffer(bytes) ==
    IF HEADER_SIZE > Len(bytes)
    THEN Panic
    ELSE access_header(bytes)

\* fn get_type_and_version_from_tagged_bytes
get_type_and_version_from_tagged_bytes(bytes) ==
    IF HEADER_SIZE > Len(bytes)
    THEN Panic
    ELSE access_header(Slice(bytes, 0, HEADER_SIZE))

\* fn get_ref_from_tagged_bytes; accessed tells whether the whole buffer was
\* handed to rkyv::access
get_ref_from_tagged_bytes(impl, bytes) ==
    LET header == get_type_and_version_from_tagged_bytes(bytes)
    IN  IF header.kind # "Ok"
        THEN IF header.kind = "Panic"
             THEN [kind |-> "Panic", accessed |-> FALSE]
             ELSE [kind |-> "Err", accessed |-> FALSE, error |-> header.error]
        ELSE LET type_id    == header.value[1]
                 version_id == header.value[2]
             IN  IF type_id # impl.ARCHIVE_TYPE_ID
                 THEN [kind |-> "Err", accessed |-> FALSE,
                       error |-> UnexpectedTypeError(impl.ARCHIVE_TYPE_ID, type_id)]
                 ELSE IF is_valid_version_id(impl, version_id)
                      THEN LET archived == access_container(impl.variants, bytes)
                           IN  IF archived.kind = "Ok"
                               THEN [kind |-> "Ok", accessed |-> TRUE,
                                     value |-> archived.value[3]]
                               ELSE [kind |-> "Err", accessed |-> TRUE,
                                     error |-> archived.error]
                      ELSE [kind |-> "Err", accessed |-> FALSE,
                            error |-> UnsupportedVersionError(version_id)]

(***************************************************************************)
(* Inputs.                                                                 *)
(***************************************************************************)
\* "YEET", "YEETYEET" (as long as fits inline) and "SKEETYEET"
Strings ==
    { <<89, 69, 69, 84>>,
      <<89, 69, 69, 84, 89, 69, 69, 84>>,
      <<83, 75, 69, 69, 84, 89, 69, 69, 84>> }

\* the integer fields are 1, 2, 3 or 100, 200, 300 in field order
Scales == {1, 100}

IntValue(ty, n) == IF ty = "u32" THEN U32(n) ELSE U64(n)

\* the values of a payload struct
Payloads(struct) ==
    LET tys == FieldTypes(struct)
    IN  { [ty |-> struct.name,
           vals |-> [n \in 1..Len(tys) |->
                        IF tys[n] = "String" THEN str
                        ELSE IntValue(tys[n], n * scale)]] :
          str \in Strings, scale \in Scales }

\* the values of the declared enum
Items(variants) ==
    UNION { { [variant |-> variants[i].ident, payload |-> p] :
              p \in Payloads(variants[i].tys[1]) } : i \in 1..Len(variants) }

\* const MUNGED_TYPE_ID: u32 = 0x01010101
MUNGED_TYPE_ID == 16843009

\* the bytes written over a byte of the buffer
CorruptValues == {0, 1, 9, 128}

\* the offsets overwritten: the two header fields as the reader sees them, the
\* tag of the archived enum, and bytes of the payload
CorruptOffsets(variants, b) ==
    { o \in {0, 4, 20, Len(b) - ContainerSize(variants) + EnumOffset(variants),
             Len(b) - 8, Len(b) - 1} : o >= 0 /\ o < Len(b) }

\* the lengths a buffer is cut to
TruncatedLengths(b) == { n \in {0, HEADER_SIZE - 1, HEADER_SIZE, Len(b) - 1} :
                           n >= 0 /\ n < Len(b) }

(***************************************************************************)
(* The state machine.                                                      *)
(***************************************************************************)
Init ==
    /\ decl = None
    /\ gen = None
    /\ item = None
    /\ written = <<>>
    /\ buf = <<>>
    /\ nCorrupt = 0
    /\ lastCall = "none"
    /\ result = None

\* #[derive(VersionedArchiveContainer)] is expanded on a declaration
Derive(input) ==
    /\ gen = None
    /\ decl' = input
    /\ gen' = derive_versioned_archive_container(input)
    /\ UNCHANGED <<item, written, buf, nCorrupt, lastCall, result>>

\* a value of the container is built and written: to_tagged_bytes(&item)
ToTaggedBytes(self) ==
    /\ Compiles(gen)
    /\ item = None
    /\ item' = self
    /\ written' = to_tagged_bytes(gen.impl, self)
    /\ buf' = written'
    /\ UNCHANGED <<decl, gen, nCorrupt, lastCall, result>>

\* one byte of the buffer is overwritten
SetByte(offset, value) ==
    /\ item # None
    /\ nCorrupt < MaxCorruptions
    /\ buf[offset + 1] # value
    /\ buf' = Patch(buf, offset, <<value>>)
    /\ nCorrupt' = nCorrupt + 1
    /\ lastCall' = "none"
    /\ result' = None
    /\ UNCHANGED <<decl, gen, item, written>>

\* the first four bytes are overwritten with 0x01, as the crate's test does
MungeTypeId ==
    /\ item # None
    /\ nCorrupt < MaxCorruptions
    /\ Len(buf) >= 4
    /\ buf' = Patch(buf, 0, ToLe(U32(MUNGED_TYPE_ID)))
    /\ buf' # buf
    /\ nCorrupt' = nCorrupt + 1
    /\ lastCall' = "none"
    /\ result' = None
    /\ UNCHANGED <<decl, gen, item, written>>

\* the caller passes only the first n bytes
Truncate(n) ==
    /\ item # None
    /\ nCorrupt < MaxCorruptions
    /\ buf' = SubSeq(buf, 1, n)
    /\ nCorrupt' = nCorrupt + 1
    /\ lastCall' = "none"
    /\ result' = None
    /\ UNCHANGED <<decl, gen, item, written>>

\* Self::get_type_and_version_from_tagged_bytes(&buf)
GetTypeAndVersion ==
    /\ item # None
    /\ lastCall' = "get_type_and_version_from_tagged_bytes"
    /\ result' = get_type_and_version_from_tagged_bytes(buf)
    /\ UNCHANGED <<decl, gen, item, written, buf, nCorrupt>>

\* Self::get_ref_from_tagged_bytes(&buf)
GetRef ==
    /\ item # None
    /\ lastCall' = "get_ref_from_tagged_bytes"
    /\ result' = get_ref_from_tagged_bytes(gen.impl, buf)
    /\ UNCHANGED <<decl, gen, item, written, buf, nCorrupt>>

Next ==
    \/ \E input \in Declarations : Derive(input)
    \/ \E self \in (IF Compiles(gen) THEN Items(gen.impl.variants) ELSE {}) :
           ToTaggedBytes(self)
    \/ \E offset \in (IF item # None THEN CorruptOffsets(gen.impl.variants, buf) ELSE {}),
          value \in CorruptValues : SetByte(offset, value)
    \/ MungeTypeId
    \/ \E n \in TruncatedLengths(buf) : Truncate(n)
    \/ GetTypeAndVersion
    \/ GetRef

Spec == Init /\ [][Next]_vars

(***************************************************************************)
(* Properties.                                                             *)
(***************************************************************************)
EXPECTED_TYPE_ID == U32(CRC32_TestContainer)

\* every variant of the declaration wraps exactly one unnamed field
WellFormed(d) ==
    /\ d.data = "Enum"
    /\ Len(d.variants) >= 1
    /\ \A i \in 1..Len(d.variants) :
           d.variants[i].fields = "Unnamed" /\ Len(d.variants[i].tys) = 1

\* the u32 v is at least n
AtLeast(v, n) == v[1] > 0 \/ v[2] >= n

CalledPeek == lastCall = "get_type_and_version_from_tagged_bytes"

CalledGetRef == lastCall = "get_ref_from_tagged_bytes"

\* the type_id and version fields as the reader decodes them
HeaderTypeId == FromLe(Slice(buf, 0, 4))

HeaderVersion == FromLe(Slice(buf, 4, 4))

\* where the writer put the root object of the written buffer
WrittenRoot == Len(written) - ContainerSize(decl.variants)

\* the versions the validity predicate is probed with
MaxVersionId == 9

VersionProbes == {U32(v) : v \in 0..MaxVersionId} \cup {<<1, 0>>, <<65535, 65535>>}

\* C1: reading back an untouched written buffer succeeds and yields the
\* variant and the payload fields of the value that was written.
C1_RoundTrip ==
    (CalledGetRef /\ nCorrupt = 0) =>
        /\ result.kind = "Ok"
        /\ result.value.variant = item.variant
        /\ result.value.payload = item.payload

\* C2: peeking an untouched written buffer yields (ARCHIVE_TYPE_ID, version id
\* of the written value): the header is the first 8 bytes of the buffer.
C2_HeaderFirst ==
    (CalledPeek /\ nCorrupt = 0) =>
        /\ result.kind = "Ok"
        /\ result.value = <<EXPECTED_TYPE_ID,
                            U32(Discriminant(decl.variants, item.variant))>>
        /\ Slice(written, 0, HEADER_SIZE)
               = ToLe(EXPECTED_TYPE_ID)
                    \o ToLe(U32(Discriminant(decl.variants, item.variant)))

\* C3: whenever get_ref_from_tagged_bytes succeeds, the variant of the
\* returned reference is the one whose version id is the version field of the
\* buffer's header.
C3_Dispatch ==
    (CalledGetRef /\ result.kind = "Ok") =>
        U32(Discriminant(decl.variants, result.value.variant)) = HeaderVersion

\* C4: a buffer whose header decodes to a type_id other than ARCHIVE_TYPE_ID
\* makes get_ref_from_tagged_bytes fail with UnexpectedTypeError(expected,
\* found), and the whole buffer is never handed to the engine.
C4_TypeMismatch ==
    (CalledGetRef /\ Len(buf) >= HEADER_SIZE /\ HeaderTypeId # EXPECTED_TYPE_ID) =>
        /\ result.kind = "Err"
        /\ result.error.type = "UnexpectedTypeError"
        /\ result.error.args = <<EXPECTED_TYPE_ID, HeaderTypeId>>
        /\ ~result.accessed

C4_Witness ==
    /\ CalledGetRef
    /\ HeaderTypeId = U32(MUNGED_TYPE_ID)
    /\ Slice(buf, 4, Len(buf) - 4) = Slice(written, 4, Len(written) - 4)
    /\ result.kind = "Err"
    /\ result.error.type = "UnexpectedTypeError"

\* the buffer is the written one with only the four bytes at offset o
\* changed, and they hold a version that is no variant's
OnlyVersionChanged(o) ==
    /\ Len(buf) = Len(written)
    /\ buf # written
    /\ o + 4 <= Len(buf)
    /\ \A i \in 1..Len(buf) : (i <= o \/ i > o + 4) => buf[i] = written[i]
    /\ AtLeast(FromLe(Slice(buf, o, 4)), Len(decl.variants))

\* C5: a written buffer in which only the version field was changed to a
\* value v >= N makes get_ref_from_tagged_bytes fail with
\* UnsupportedVersionError(v), without the whole buffer being validated.  The
\* version field is the one at offset 4, or the one the writer wrote.
C5_VersionRejected ==
    CalledGetRef =>
        \A o \in {VersionOffset, WrittenRoot + VersionOffset} :
            OnlyVersionChanged(o) =>
                /\ result.kind = "Err"
                /\ result.error.type = "UnsupportedVersionError"
                /\ result.error.args = <<FromLe(Slice(buf, o, 4))>>
                /\ ~result.accessed

\* C6: on a buffer shorter than the 8 byte header both readers return an
\* error value.
C6_ShortBufferIsError ==
    ((CalledPeek \/ CalledGetRef) /\ Len(buf) < HEADER_SIZE) =>
        result.kind = "Err"

\* C7: two buffers of at least 8 bytes that agree on their first 8 bytes get
\* the same result from get_type_and_version_from_tagged_bytes; here the
\* buffer before and after any step that cuts or overwrites it.
C7_HeaderIndependence ==
    [][(/\ Len(buf) >= HEADER_SIZE
        /\ Len(buf') >= HEADER_SIZE
        /\ Slice(buf, 0, HEADER_SIZE) = Slice(buf', 0, HEADER_SIZE))
       => get_type_and_version_from_tagged_bytes(buf')
              = get_type_and_version_from_tagged_bytes(buf)]_vars

C7_Witness ==
    /\ CalledPeek
    /\ result.kind = "Ok"
    /\ Len(buf) >= HEADER_SIZE
    /\ Len(buf) < Len(written)
    /\ \E i \in (HEADER_SIZE + 1)..Len(buf) : buf[i] # written[i]
    /\ Slice(buf, 0, HEADER_SIZE) = Slice(written, 0, HEADER_SIZE)
    /\ access_container(decl.variants, buf).kind = "Err"

\* C8: for a well-formed enum of N variants the i-th variant (from zero) has
\* version id i, and a version is valid exactly when it is below N.
C8_VersionIds ==
    (gen # None /\ WellFormed(decl)) =>
        /\ \A i \in 1..Len(decl.variants) :
               get_entry_version_id(gen.impl, [variant |-> decl.variants[i].ident])
                   = U32(i - 1)
        /\ \A v \in VersionProbes :
               is_valid_version_id(gen.impl, v) <=> ~AtLeast(v, Len(decl.variants))
        /\ (CalledGetRef /\ Len(buf) >= HEADER_SIZE
                /\ HeaderTypeId = EXPECTED_TYPE_ID
                /\ AtLeast(HeaderVersion, Len(decl.variants)))
               => result.kind = "Err"

C8_Witness ==
    /\ item # None
    /\ WellFormed(decl)
    /\ Len(decl.variants) = 3
    /\ item.variant = "V3"
    /\ Slice(written, WrittenRoot + VersionOffset, 4) = ToLe(U32(2))

\* a variant that does not carry exactly one payload field
BadArity(variant) == variant.fields = "Unit" \/ Len(variant.tys) # 1

\* C9: when some variant carries zero or several payload fields, the output
\* of the macro has an error naming that variant and holds no implementation
\* of VersionedContainer.
C9_DeclarationRejected ==
    (gen # None /\ decl.data = "Enum"
        /\ \E i \in 1..Len(decl.variants) : BadArity(decl.variants[i])) =>
        /\ \A i \in 1..Len(decl.variants) :
               BadArity(decl.variants[i]) =>
                   \E m \in 1..Len(gen.error_messages) :
                       gen.error_messages[m].in = <<decl.ident, decl.variants[i].ident>>
        /\ gen.impl = None

\* C10: get_ref_from_tagged_bytes fails at the first failing stage: header
\* decode, then type check, then version check, then validation of the whole
\* buffer, which runs only when both header checks passed.
C10_StagedOrder ==
    CalledGetRef =>
        IF Len(buf) < HEADER_SIZE
        THEN /\ result.kind # "Ok"
             /\ ~result.accessed
             /\ result.kind = "Err" =>
                    result.error.type \notin {"UnexpectedTypeError",
                                              "UnsupportedVersionError"}
        ELSE IF HeaderTypeId # EXPECTED_TYPE_ID
        THEN /\ result.kind = "Err"
             /\ result.error.type = "UnexpectedTypeError"
             /\ ~result.accessed
        ELSE IF AtLeast(HeaderVersion, Len(decl.variants))
        THEN /\ result.kind = "Err"
             /\ result.error = UnsupportedVersionError(HeaderVersion)
             /\ ~result.accessed
        ELSE /\ result.accessed
             /\ \/ result.kind = "Ok"
                \/ result.kind = "Err" /\ result.error.type = "rkyv validation"
             /\ result.kind = "Ok" <=> access_container(decl.variants, buf).kind = "Ok"

\* both header fields wrong and the payload invalid: the type error wins
C10_Witness ==
    /\ CalledGetRef
    /\ Len(buf) >= HEADER_SIZE
    /\ HeaderTypeId = U32(MUNGED_TYPE_ID)
    /\ AtLeast(HeaderVersion, Len(decl.variants))
    /\ access_container(decl.variants, buf).kind = "Err"
    /\ result.kind = "Err"
    /\ result.error.type = "UnexpectedTypeError"

====
